---- MODULE Spec2Model ----
(***************************************************************************)
(* exampleKinematicConstraints.py: the post-solution analysis (lines       *)
(* 98-145).  A planar point mass is constrained to the parabola ty = tx^2; *)
(* the script multiplies the position-level constraint Jacobian by the     *)
(* Lagrange multiplier at every tenth sample of the solution, draws the    *)
(* constraint force as an arrow and prints the residual of the equations   *)
(* of motion.                                                              *)
(*                                                                         *)
(* Numbers.  The script computes in floating point; the model computes in  *)
(* fixed point so that the arithmetic is exact:                            *)
(*   - coordinates tx, ty, the Jacobian entries and mass are integers;     *)
(*   - multipliers, forces, accelerations, gravity and residuals are in    *)
(*     tenths (9.8 is 98, a multiplier of 3 is 30);                        *)
(*   - the arrow scale 0.010 is held in thousandths (10), and an arrow     *)
(*     component in ten-thousandths;                                       *)
(*   - time is in hundredths of a second.                                  *)
(* Arrays are functions over 0 .. n-1, indexed as in Python.               *)
(***************************************************************************)
EXTENDS Integers, Sequences, FiniteSets, TLC

VARIABLES
    solutionMultipliers, \* solution's multiplier columns, in getMultiplierNames() order
    statesTraj,          \* solution.exportToStatesTrajectory(model)
    time, tx, ty,        \* getTimeMat(), getStateMat(tx), getStateMat(ty)
    multiplier,          \* line 101
    accelx, accely,      \* lines 111, 113
    g,                   \* line 34
    forceVizScale,       \* the factor of line 133, in thousandths
    constraintJacobian,  \* the osim.Matrix of line 118, reused by every iteration
    positionCache,       \* what model.realizePosition last realized
    itime,               \* line 119
    locals,              \* the loop body's variables, as last assigned
    arrows,              \* the pl.arrow calls made, in order
    printed,             \* the residual lines printed, in order
    order,               \* the indices whose iteration has completed, in order (history)
    pc                   \* "loop", "done" (pl.show() reached) or "error" (IndexError)

vars == <<solutionMultipliers, statesTraj, time, tx, ty, multiplier, accelx,
          accely, g, forceVizScale, constraintJacobian, positionCache, itime,
          locals, arrows, printed, order, pc>>

inputs == <<solutionMultipliers, statesTraj, time, tx, ty, multiplier, accelx,
            accely, g, forceVizScale>>

\* Longest trajectory and multiplier series explored.
MaxN == 21

\* itime += 10 (line 143).
sampleStride == 10

\* mass = 1.0 (line 38).
mass == 1

\* len() of an array.
Size(a) == Cardinality(DOMAIN a)

\* An array of n elements, element i being f0 + step * i.
Ramp(n, f0, step) == [i \in 0 .. n - 1 |-> f0 + step * i]

NoMatrix == << >>

-----------------------------------------------------------------------------
(* The inputs the analysis starts from. *)

\* Values of forceVizScale explored, in thousandths; the script's is 10.
VizScales == {10, 20}

\* g = abs(model.get_gravity()[1]), in tenths.
Gravities == {0, 98}

negate(column) == [i \in DOMAIN column |-> -column[i]]

\* Variant: the column as reported, without the minus sign.
FirstMultiplierNotNegated(mults) == mults[1]

\* multiplier = -solution.getMultiplierMat(solution.getMultiplierNames()[0])
FirstMultiplier(mults) == negate(mults[1])

\* exportToStatesTrajectory: one state per row of the solution, holding the
\* coordinate values of that row.
exportToStatesTrajectory(n, tx0) ==
    [i \in 0 .. n - 1 |-> [tx |-> tx0 + i, ty |-> (tx0 + i) * (tx0 + i)]]

\* The solution is a point moving along the parabola, tx = tx0 + i and
\* ty = tx^2 at row i, with a multiplier and accelerations that change from
\* row to row.  The trajectory has n rows.  The arrays cut from the solution
\* have n elements too, except that in each run either the multiplier column
\* or the time and coordinate columns may have another length.  accelx and
\* accely are splines evaluated on time (lines 109-113) and have its length.
InitFrom(Names, Starts, Lam0s, Accels, Gravs, Scales) ==
    \E n \in 0 .. MaxN, other \in 0 .. MaxN, odd \in {"multiplier", "series"},
       nNames \in Names, tx0 \in Starts, lam0 \in Lam0s, a \in Accels,
       grav \in Gravs, scale \in Scales :
        LET nMult   == IF odd = "multiplier" THEN other ELSE n
            nSeries == IF odd = "series" THEN other ELSE n
        IN
        /\ solutionMultipliers =
              [c \in 1 .. nNames |-> Ramp(nMult, c * lam0, 10)]
        /\ statesTraj = exportToStatesTrajectory(n, tx0)
        /\ time = Ramp(nSeries, 0, 4)
        /\ tx = Ramp(nSeries, tx0, 1)
        /\ ty = [i \in 0 .. nSeries - 1 |-> (tx0 + i) * (tx0 + i)]
        /\ multiplier = FirstMultiplier(solutionMultipliers)
        /\ accelx = Ramp(nSeries, a * 20, a)
        /\ accely = Ramp(nSeries, a * 120, 2 * a)
        /\ g = grav
        /\ forceVizScale = scale
        /\ constraintJacobian = NoMatrix
        /\ positionCache = << >>
        /\ itime = 0
        /\ locals = << >>
        /\ arrows = << >>
        /\ printed = << >>
        /\ order = << >>
        /\ pc = "loop"

Init == InitFrom(1 .. 2, {-1, 1}, {-30, 30}, {0, 1}, Gravities, VizScales)

\* One solution of every combination of lengths: the values in the arrays
\* have no part in which way the loop goes.
InitOneSolution == InitFrom({1}, {1}, {-30}, {1}, {98}, {10})

-----------------------------------------------------------------------------
(* The loop body, lines 121-141. *)

\* Variant: positions once realized stay current.
realizePositionStale(state, cache) ==
    IF cache = << >> THEN <<state.tx, state.ty>> ELSE cache

\* model.realizePosition(state): the positions of this state become current.
realizePosition(state, cache) == <<state.tx, state.ty>>

\* Variant: a matrix already filled is left as it is.
calcPqCached(q, matrix) == IF matrix = NoMatrix THEN <<2 * q[1], -1>> ELSE matrix

\* matter.calcPq(state, constraintJacobian) fills the matrix it is handed with
\* the 2 x 1 Jacobian of ty = tx^2 at the realized positions: Pq = [2 * tx, -1].
calcPq(q, matrix) == <<2 * q[1], -1>>

\* Variant: jac + multiplier[itime].
constraintForcesOfSum(jac, lambda) == <<jac[1] + lambda, jac[2] + lambda>>

\* constraintForces = jac * multiplier[itime]
constraintForcesOf(jac, lambda) == <<jac[1] * lambda, jac[2] * lambda>>

\* constraintForcesViz = 0.010 * constraintForces
constraintForcesVizOf(scale, forces) == <<scale * forces[1], scale * forces[2]>>

\* residualx = +constraintForces[0] - mass * accelx[itime]
residualxOf(forces, m, grav, ax) == forces[1] - m * ax

\* Variant: the weight left out.
residualyNoGravity(forces, m, grav, ay) == forces[2] - m * ay

\* residualy = -mass * g + constraintForces[1] - mass * accely[itime]
residualyOf(forces, m, grav, ay) == -m * grav + forces[2] - m * ay

\* Lines 121-128: what one iteration does before it reads multiplier[itime].
Evaluate(i, cache, matrix) ==
    LET state == statesTraj[i]
        q     == realizePosition(state, cache)
        pq    == calcPq(q, matrix)
    IN  [state |-> state, positionCache |-> q, constraintJacobian |-> pq,
         jac |-> <<pq[1], pq[2]>>]

\* Variant: the residual computed from the scaled vector.
ForcesFromViz(i, jac, lambda, scale, grav) ==
    LET forces == constraintForcesOf(jac, lambda)
        viz    == constraintForcesVizOf(scale, forces)
    IN  [constraintForces    |-> forces,
         constraintForcesViz |-> viz,
         residualx |-> residualxOf(viz, mass, grav, accelx[i]),
         residualy |-> residualyOf(viz, mass, grav, accely[i])]

\* Lines 130-139 at index i: the force, its arrow vector and the residual.
Forces(i, jac, lambda, scale, grav) ==
    LET forces == constraintForcesOf(jac, lambda)
    IN  [constraintForces    |-> forces,
         constraintForcesViz |-> constraintForcesVizOf(scale, forces),
         residualx |-> residualxOf(forces, mass, grav, accelx[i]),
         residualy |-> residualyOf(forces, mass, grav, accely[i])]

\* pl.arrow(tx[itime], ty[itime], constraintForcesViz[0], constraintForcesViz[1])
Arrow(i, f) ==
    [x |-> tx[i], y |-> ty[i],
     dx |-> f.constraintForcesViz[1], dy |-> f.constraintForcesViz[2]]

\* print('time %f: residuals: %f, %f' % (time[itime], residualx, residualy))
Line(i, f) ==
    [time |-> time[i], residualx |-> f.residualx, residualy |-> f.residualy]

\* Whether every array the body indexes with i has an element i.
Readable(i) ==
    /\ i \in DOMAIN statesTraj
    /\ i \in DOMAIN multiplier
    /\ i \in DOMAIN tx /\ i \in DOMAIN ty
    /\ i \in DOMAIN accelx /\ i \in DOMAIN accely
    /\ i \in DOMAIN time

\* One whole iteration at index i.
Body(i) ==
    LET ev == Evaluate(i, positionCache, constraintJacobian)
        f  == Forces(i, ev.jac, multiplier[i], forceVizScale, g)
    IN  /\ Readable(i)
        /\ positionCache' = ev.positionCache
        /\ constraintJacobian' = ev.constraintJacobian
        /\ locals' = [state |-> ev.state, jac |-> ev.jac] @@ f
        /\ arrows' = Append(arrows, Arrow(i, f))
        /\ printed' = Append(printed, Line(i, f))
        /\ order' = Append(order, i)

\* An iteration at index i that ends in an index error.  statesTraj.get(i)
\* raises at line 121 before anything is written.  A missing multiplier[i]
\* raises at line 130 and a missing tx[i] or ty[i] at line 134, while the
\* arguments of pl.arrow are evaluated: after the state was realized and the
\* Jacobian computed, and before the arrow is drawn.  time, accelx and accely
\* are as long as tx, so the lines after the arrow do not raise.
BodyRaises(i) ==
    /\ ~Readable(i)
    /\ IF i \in DOMAIN statesTraj
       THEN LET ev == Evaluate(i, positionCache, constraintJacobian)
            IN  /\ positionCache' = ev.positionCache
                /\ constraintJacobian' = ev.constraintJacobian
                /\ locals' = [state |-> ev.state, jac |-> ev.jac] @@ locals
       ELSE UNCHANGED <<positionCache, constraintJacobian, locals>>
    /\ pc' = "error"
    /\ UNCHANGED <<arrows, printed, order>>

-----------------------------------------------------------------------------
(* The loop of lines 119-145. *)

\* Variant: itime += 11.
NextIndexOffByOne(i) == i + sampleStride + 1

\* Variant: itime stops advancing after the first iteration.
NextIndexStalls(i) == IF i = 0 THEN sampleStride ELSE i

\* itime += 10
NextIndex(i) == i + sampleStride

\* Variant: while itime <= statesTraj.getSize().
LoopTestInclusive(i) == i <= Size(statesTraj)

\* Variant: the loop stops one stride early.
LoopTestSkipsLast(i) == i + sampleStride < Size(statesTraj)

\* while itime < statesTraj.getSize()
LoopTest(i) == i < Size(statesTraj)

Iterate ==
    /\ pc = "loop"
    /\ LoopTest(itime)
    /\ Body(itime)
    /\ itime' = NextIndex(itime)
    /\ UNCHANGED <<inputs, pc>>

IterateRaises ==
    /\ pc = "loop"
    /\ LoopTest(itime)
    /\ BodyRaises(itime)
    /\ UNCHANGED <<inputs, itime>>

\* The loop test fails: pl.show()
Show ==
    /\ pc = "loop"
    /\ ~LoopTest(itime)
    /\ pc' = "done"
    /\ UNCHANGED <<inputs, constraintJacobian, positionCache, itime, locals,
                   arrows, printed, order>>

Next == Iterate \/ IterateRaises \/ Show

Spec == Init /\ [][Next]_vars

\* The script runs to its end: no step that can be taken is put off forever.
FairSpec == InitOneSolution /\ [][Next]_vars /\ WF_vars(Next)

-----------------------------------------------------------------------------
(* The whole loop as a function of the inputs: what a run from itime = 0   *)
(* draws and prints with the arrow scale given.                            *)

RECURSIVE RunFrom(_, _, _, _, _)
RunFrom(i, cache, matrix, scale, out) ==
    IF ~(LoopTest(i) /\ Readable(i))
    THEN out
    ELSE LET ev == Evaluate(i, cache, matrix)
             f  == Forces(i, ev.jac, multiplier[i], scale, g)
         IN  RunFrom(NextIndex(i), ev.positionCache, ev.constraintJacobian, scale,
                     [arrows  |-> Append(out.arrows, Arrow(i, f)),
                      printed |-> Append(out.printed, Line(i, f))])

Run(scale) ==
    RunFrom(0, << >>, NoMatrix, scale, [arrows |-> << >>, printed |-> << >>])

-----------------------------------------------------------------------------
(* The same iterations taken in any order: every index the loop selects is *)
(* processed once, one whole iteration at a time, on the one Jacobian      *)
(* matrix and the one model the script has.                                *)

Selected == {i \in DOMAIN statesTraj : i % sampleStride = 0}

Processed == {order[j] : j \in 1 .. Len(order)}

AnyOrderIterate ==
    /\ pc = "loop"
    /\ \E i \in Selected \ Processed :
          /\ Body(i)
          /\ itime' = i
    /\ UNCHANGED <<inputs, pc>>

AnyOrderRaises ==
    /\ pc = "loop"
    /\ \E i \in Selected \ Processed :
          /\ BodyRaises(i)
          /\ itime' = i
    /\ UNCHANGED inputs

AnyOrderShow ==
    /\ pc = "loop"
    /\ Selected \subseteq Processed
    /\ pc' = "done"
    /\ UNCHANGED <<inputs, constraintJacobian, positionCache, itime, locals,
                   arrows, printed, order>>

NextAnyOrder == AnyOrderIterate \/ AnyOrderRaises \/ AnyOrderShow

SpecAnyOrder == Init /\ [][NextAnyOrder]_vars

-----------------------------------------------------------------------------
(* Properties. *)

\* The trajectory's length.
N == Size(statesTraj)

CeilDiv(n, k) == (n + k - 1) \div k

\* Every series of the solution has the trajectory's length.
SameLengths ==
    /\ Size(time) = N /\ Size(tx) = N /\ Size(ty) = N
    /\ Size(multiplier) = N /\ Size(accelx) = N /\ Size(accely) = N

\* The index of the last iteration that completed.
Last == order[Len(order)]

\* The Jacobian of ty = tx^2 at sample i.
JacobianAt(i) == <<2 * statesTraj[i].tx, -1>>

\* C1 (stride): the loop emits the samples at the indices 0, 10, 20, ...
\* below N in that order and no other, each printed with the time of its
\* index, and a run that reaches pl.show() has emitted ceil(N / 10) samples.
StrideProperty ==
    /\ Len(printed) = Len(order)
    /\ \A j \in 1 .. Len(order) :
          /\ order[j] = (j - 1) * sampleStride
          /\ order[j] < N
          /\ printed[j].time = time[(j - 1) * sampleStride]
    /\ pc = "done" =>
          /\ Len(printed) = CeilDiv(N, sampleStride)
          /\ \A i \in 0 .. N - 1 :
                (i % sampleStride = 0) <=> (\E j \in 1 .. Len(order) : order[j] = i)

StrideWitness ==
    /\ pc = "done"
    /\ N = 2 * sampleStride + 1
    /\ Len(printed) = 3
    /\ printed[3].time = time[2 * sampleStride]
    /\ printed[2].time # printed[3].time

\* C2 (residual formula): the residual of every completed iteration is
\* residualx = F.x - mass * accelx[i] and
\* residualy = -mass * g + F.y - mass * accely[i] for the force F of that
\* iteration, and that is what is printed; with no acceleration and no
\* gravity the residual is F; with J = [2, -1], multiplier 3, gravity 9.8,
\* accelx 2 and accely 12 the force is [6, -3] and the residual 4, -24.8.
ResidualFormula ==
    order # << >> =>
        LET i == Last
            F == locals.constraintForces
        IN  /\ locals.residualx = F[1] - mass * accelx[i]
            /\ locals.residualy = -mass * g + F[2] - mass * accely[i]
            /\ printed[Len(printed)].residualx = locals.residualx
            /\ printed[Len(printed)].residualy = locals.residualy
            /\ (g = 0 /\ accelx[i] = 0 /\ accely[i] = 0) =>
                   <<locals.residualx, locals.residualy>> = F
            /\ (/\ JacobianAt(i) = <<2, -1>> /\ multiplier[i] = 30
                /\ g = 98 /\ accelx[i] = 20 /\ accely[i] = 120) =>
                   /\ F = <<60, -30>>
                   /\ locals.residualx = 40
                   /\ locals.residualy = -248

ResidualWitness ==
    /\ order # << >>
    /\ JacobianAt(Last) = <<2, -1>> /\ multiplier[Last] = 30
    /\ g = 98 /\ accelx[Last] = 20 /\ accely[Last] = 120
    /\ locals.residualy = -248

\* C3 (force and sign): the force of every completed iteration is the
\* Jacobian column at that sample times the negation of the multiplier the
\* solution reports, under its first name, at the same index; the arrow drawn
\* is that force scaled.
ConstraintForceSign ==
    order # << >> =>
        LET i        == Last
            J        == JacobianAt(i)
            reported == solutionMultipliers[1][i]
            F        == <<-(J[1] * reported), -(J[2] * reported)>>
        IN  /\ locals.constraintForces = F
            /\ arrows[Len(arrows)].dx = forceVizScale * F[1]
            /\ arrows[Len(arrows)].dy = forceVizScale * F[2]

ConstraintForceWitness ==
    /\ Len(order) = 2
    /\ Len(solutionMultipliers) = 2
    /\ solutionMultipliers[2][Last] # solutionMultipliers[1][Last]
    /\ solutionMultipliers[1][Last] > 0
    /\ JacobianAt(Last)[1] > 0
    /\ locals.constraintForces[1] < 0
    /\ locals.constraintForces[2] > 0

\* Multipliers tried in place of the one the solution gives, in tenths.
Lambdas == {-30, -10, 0, 10, 30}

\* C4 (linearity): at every completed iteration, the same iteration with
\* the multiplier negated has the negated force and a residual smaller by
\* twice the force, and the residual grows with the multiplier at slope J.
MultiplierLinearity ==
    order # << >> =>
        LET i   == Last
            J   == JacobianAt(i)
            F   == locals.constraintForces
            neg == Forces(i, J, -multiplier[i], forceVizScale, g)
            at0 == Forces(i, J, 0, forceVizScale, g)
        IN  /\ neg.constraintForces = <<-F[1], -F[2]>>
            /\ locals.residualx - neg.residualx = 2 * F[1]
            /\ locals.residualy - neg.residualy = 2 * F[2]
            /\ \A l \in Lambdas :
                  LET atl == Forces(i, J, l, forceVizScale, g)
                  IN  /\ atl.residualx - at0.residualx = J[1] * l
                      /\ atl.residualy - at0.residualy = J[2] * l

MultiplierLinearityWitness ==
    /\ Len(order) = 3
    /\ locals.constraintForces[1] < 0
    /\ locals.constraintForces[2] > 0
    /\ g = 98

\* C5 (scale isolation): whatever the arrow scale, a run on the same inputs
\* prints the same residual lines; only the arrows change.
ScaleIsolation ==
    \A scale \in VizScales :
        LET other == Run(scale)
        IN  /\ Len(printed) <= Len(other.printed)
            /\ printed = SubSeq(other.printed, 1, Len(printed))
            /\ pc # "loop" => printed = other.printed

ScaleIsolationWitness ==
    /\ pc = "done"
    /\ Len(printed) = 3
    /\ \E scale \in VizScales :
          /\ Run(scale).printed = printed
          /\ Run(scale).arrows # arrows

Results(out) == {<<out.arrows[j], out.printed[j]>> : j \in 1 .. Len(out.printed)}

JacobianFreshness ==
    /\ (order # << >> \/ pc = "error") =>
          LET i == IF pc = "error" THEN itime ELSE Last
          IN  /\ locals.state = statesTraj[i]
              /\ positionCache = <<statesTraj[i].tx, statesTraj[i].ty>>
              /\ constraintJacobian = JacobianAt(i)
              /\ locals.jac = constraintJacobian
    /\ \A j \in 1 .. Len(arrows) :
          /\ arrows[j].dx = forceVizScale * (JacobianAt(order[j])[1] * multiplier[order[j]])
          /\ arrows[j].dy = forceVizScale * (JacobianAt(order[j])[2] * multiplier[order[j]])

JacobianFreshnessWitness ==
    /\ Len(order) = 3
    /\ pc = "loop"
    /\ constraintJacobian = JacobianAt(20)
    /\ constraintJacobian # JacobianAt(10)
    /\ constraintJacobian # JacobianAt(0)

\* C9 (termination): every iteration raises itime, no iteration starts with
\* itime >= N, the loop ends, and it ends at pl.show() when every series has
\* the trajectory's length; an empty trajectory emits nothing.
Termination ==
    /\ [][(order' # order \/ pc' = "error") => itime < N]_vars
    /\ [][order' # order => itime' > itime]_vars
    /\ [](N = 0 => printed = << >>)
    /\ <>(pc # "loop")
    /\ [](SameLengths => <>(pc = "done"))

TerminationWitness ==
    /\ SameLengths
    /\ pc = "done"
    /\ Len(order) = 2
    /\ itime = 2 * sampleStride
    /\ itime >= N

\* C10 (in-bounds indexing): when every series has the trajectory's length,
\* every index the loop body is entered with or has read with lies in
\* 0 .. N-1 and is an index of every array, and no index error is raised.
InBoundsIndexing ==
    SameLengths =>
        /\ pc # "error"
        /\ itime >= 0
        /\ ENABLED (Iterate \/ IterateRaises) =>
              (0 <= itime /\ itime < N /\ Readable(itime))
        /\ \A j \in 1 .. Len(order) :
              /\ 0 <= order[j] /\ order[j] < N
              /\ Readable(order[j])

InBoundsWitness ==
    /\ SameLengths
    /\ N = 2 * sampleStride
    /\ pc = "done"
    /\ order = <<0, sampleStride>>

====
